---- MODULE Spec2Model ----
(***************************************************************************)
(* Hybrid-electric-vehicle energy management simulation                    *)
(* (src/energyManagement.py): the per-step mode selection, the power       *)
(* split, the battery charge integration with its [0,1] clamp, and the     *)
(* loop that threads SoC through the steps and fills the five output       *)
(* arrays.                                                                 *)
(*                                                                         *)
(* Number representation.  The program computes in binary floating point.  *)
(* Here a power of p kW is the integer p * PowerScale and a state of       *)
(* charge s is the integer s * SoCScale, so the SoC values live on a grid  *)
(* of spacing 1/SoCScale, which stands for the spacing of the floats       *)
(* around the SoC value.  Comparisons are exact, halving is exact (every   *)
(* demand sample is an even number of power units, as halving a binary     *)
(* float is exact), and the one inexact operation, the subtraction         *)
(* SoC -= dQ / battery_capacity_C, rounds its result to the nearest grid   *)
(* point, ties to even, as the float subtraction does.  With the scales    *)
(* chosen, every whole or half kW of motor power moves SoC by a whole      *)
(* number of grid steps, and the sample TinyDemand moves it by a quarter   *)
(* of a grid step, as a demand of 1e-12 kW does at SoC 0.7 in the program. *)
(*                                                                         *)
(* Inputs.  The demand and speed samples are read one per step from the    *)
(* externally supplied sequences; SoC_init ranges over InitialSoCs.  Under *)
(* Spec the thresholds and the sequence lengths are the ones the program   *)
(* sets; under ConfigSpec they are inputs as well.                         *)
(***************************************************************************)
EXTENDS Integers, Sequences, FiniteSets

VARIABLES
    pc,                     \* "loop": in the for loop; "plot": past it; "IndexError": aborted
    i,                      \* number of loop iterations completed = index of the next sample
    SoC_init,               \* initial state of charge
    SoC_High,               \* thresholds of the control logic
    SoC_Low,
    len_power_demand,       \* len(power_demand_profile)
    len_speed,              \* len(speed_profile)
    power_demand_profile,   \* the demand samples read so far, in step order
    speed,                  \* the speed sample read by the latest step
    SoC,                    \* state of charge carried across the steps
    current_mode,           \* 0 = EV, 1 = Hybrid, 2 = Engine Only
    SoC_array,
    mode_array,
    engine_power_array,
    motor_power_array,
    battery_power_array

vars == << pc, i, SoC_init, SoC_High, SoC_Low, len_power_demand, len_speed,
           power_demand_profile, speed, SoC, current_mode, SoC_array,
           mode_array, engine_power_array, motor_power_array,
           battery_power_array >>

----------------------------------------------------------------------------
\* Scales of the fixed-point representation and bound of the run length.

PowerScale == 32
SoCScale == 144000
MaxTime == 3

kW(p) == p * PowerScale
\* n / d of full charge, on the SoC grid
Frac(n, d) == (n * SoCScale) \div d

----------------------------------------------------------------------------
\* 1. Simulation setup, 2. battery model, 3. control thresholds.

dt == 1
total_time == MaxTime
NumSteps == total_time \div dt

battery_capacity_kWh == 10
battery_capacity_Wh == battery_capacity_kWh * 1000
battery_voltage == 200
battery_capacity_C == (battery_capacity_Wh * 3600) \div battery_voltage

SoC_init_configured == Frac(7, 10)
SoC_High_configured == Frac(8, 10)
SoC_Low_configured == Frac(3, 10)
Power_Demand_Threshold == kW(20)
Max_Electric_Power == kW(30)

EV == 0
HYBRID == 1
ENGINE_ONLY == 2

----------------------------------------------------------------------------
\* Input domains.

TinyDemand == 2
Demands == { kW(-10), 0, TinyDemand, kW(10), kW(25), kW(35), kW(300) }
Speeds == { 0, 13 }
InitialSoCs == { 0, Frac(1, 2400), Frac(2, 10), Frac(3, 10), Frac(3, 10) + 60, Frac(5, 10),
                 SoC_init_configured, Frac(8, 10) + 40, Frac(9, 10), SoCScale }

----------------------------------------------------------------------------
\* Arithmetic helpers.

Min(a, b) == IF a < b THEN a ELSE b
Max(a, b) == IF a > b THEN a ELSE b

\* n / d rounded to the nearest integer, ties to the even one (d > 0)
RoundDiv(n, d) ==
    LET q == n \div d
        r == n % d
    IN  IF 2 * r < d THEN q
        ELSE IF 2 * r > d THEN q + 1
        ELSE IF q % 2 = 0 THEN q ELSE q + 1

\* power units times seconds that move SoC by one grid step:
\* (p / PowerScale) * 1000 * dt / battery_voltage / battery_capacity_C = 1 / SoCScale
GridRatio == (PowerScale * battery_voltage * battery_capacity_C) \div (1000 * SoCScale)

----------------------------------------------------------------------------
\* Faulty variants of the step functions, used to show that the properties
\* below are sensitive to the code they are about.

\* rule 1 without its demand condition
DetermineModeIgnoringDemand(soc, demand, high, low) ==
    IF soc > high THEN EV
    ELSE IF soc < low THEN ENGINE_ONLY
    ELSE IF demand > Power_Demand_Threshold THEN HYBRID
    ELSE EV

\* the low-SoC rule tested after the demand threshold
DetermineModeLowLast(soc, demand, high, low) ==
    IF soc > high /\ demand < Max_Electric_Power THEN EV
    ELSE IF demand > Power_Demand_Threshold THEN HYBRID
    ELSE IF soc < low THEN ENGINE_ONLY
    ELSE EV

\* hybrid motor share without the motor ceiling
MotorPowerUncapped(mode, demand) ==
    IF mode = EV
    THEN IF demand <= Max_Electric_Power THEN demand ELSE Max_Electric_Power
    ELSE IF mode = HYBRID THEN demand \div 2
    ELSE 0

\* hybrid engine share computed as the remainder left by the motor
EnginePowerRemainder(mode, demand) ==
    IF mode = EV
    THEN IF demand <= Max_Electric_Power THEN 0 ELSE demand - Max_Electric_Power
    ELSE IF mode = HYBRID THEN demand - Min(demand \div 2, Max_Electric_Power)
    ELSE demand

\* the clamp left out
ClampMissing(soc) == soc

\* the two arms of the EV split exchanged
MotorPowerArmsSwapped(mode, demand) ==
    IF mode = EV
    THEN IF demand <= Max_Electric_Power THEN Max_Electric_Power ELSE demand
    ELSE IF mode = HYBRID THEN Min(demand \div 2, Max_Electric_Power)
    ELSE 0

\* the charge delta added instead of subtracted
DischargeAdds(soc, battery_power) ==
    IF battery_power > 0
    THEN RoundDiv(soc * GridRatio + battery_power * dt, GridRatio)
    ELSE soc

\* a negative battery power recharging the battery at regen_efficiency (3/10)
DischargeRegen(soc, battery_power) ==
    IF battery_power > 0
    THEN RoundDiv(soc * GridRatio - battery_power * dt, GridRatio)
    ELSE RoundDiv(10 * soc * GridRatio - 3 * battery_power * dt, 10 * GridRatio)

\* a mode memory: EV is kept from the previous step while the motor can
\* serve the demand
DetermineModeSticky(soc, demand, high, low) ==
    IF current_mode = EV /\ demand <= Max_Electric_Power THEN EV
    ELSE IF soc > high /\ demand < Max_Electric_Power THEN EV
    ELSE IF soc < low THEN ENGINE_ONLY
    ELSE IF demand > Power_Demand_Threshold THEN HYBRID
    ELSE EV

----------------------------------------------------------------------------
\* One step of the loop body, as functions of the SoC held before the step
\* and the step's demand.

\* --- Determine Mode ---
DetermineMode(soc, demand, high, low) ==
    IF soc > high /\ demand < Max_Electric_Power THEN EV
    ELSE IF soc < low THEN ENGINE_ONLY
    ELSE IF demand > Power_Demand_Threshold THEN HYBRID
    ELSE EV

\* --- Calculate Power Split ---
MotorPower(mode, demand) ==
    IF mode = EV
    THEN IF demand <= Max_Electric_Power THEN demand ELSE Max_Electric_Power
    ELSE IF mode = HYBRID THEN Min(demand \div 2, Max_Electric_Power)
    ELSE 0

EnginePower(mode, demand) ==
    IF mode = EV
    THEN IF demand <= Max_Electric_Power THEN 0 ELSE demand - Max_Electric_Power
    ELSE IF mode = HYBRID THEN demand \div 2
    ELSE demand

\* --- Battery Interaction ---: the SoC before the clamp
Discharge(soc, battery_power) ==
    IF battery_power > 0
    THEN RoundDiv(soc * GridRatio - battery_power * dt, GridRatio)
    ELSE soc

\* Ensure SoC stays in [0, 1]
Clamp(soc) == Max(0, Min(SoCScale, soc))

----------------------------------------------------------------------------
\* State after the module-level set-up, before the first iteration.

ZeroArray == [k \in 1..NumSteps |-> 0]

InitWith(socs, highs, lows, dlens, slens) ==
    /\ pc = "loop"
    /\ i = 0
    /\ SoC_init \in socs
    /\ SoC_High \in highs
    /\ SoC_Low \in lows
    /\ len_power_demand \in dlens
    /\ len_speed \in slens
    /\ power_demand_profile = << >>
    /\ speed = 0
    /\ SoC = SoC_init
    /\ current_mode = EV
    /\ SoC_array = ZeroArray
    /\ mode_array = ZeroArray
    /\ engine_power_array = ZeroArray
    /\ motor_power_array = ZeroArray
    /\ battery_power_array = ZeroArray

Init == InitWith(InitialSoCs, {SoC_High_configured}, {SoC_Low_configured},
                 {NumSteps}, {NumSteps})

\* One iteration of the for loop.
Step ==
    /\ pc = "loop"
    /\ i < NumSteps
    /\ i < len_power_demand
    /\ i < len_speed
    /\ \E demand \in Demands, spd \in Speeds :
        LET mode == DetermineMode(SoC, demand, SoC_High, SoC_Low)
            motor_power == MotorPower(mode, demand)
            engine_power == EnginePower(mode, demand)
            battery_power == motor_power
            newSoC == Clamp(Discharge(SoC, battery_power))
        IN  /\ power_demand_profile' = Append(power_demand_profile, demand)
            /\ speed' = spd
            /\ current_mode' = mode
            /\ SoC' = newSoC
            /\ SoC_array' = [SoC_array EXCEPT ![i + 1] = newSoC]
            /\ mode_array' = [mode_array EXCEPT ![i + 1] = mode]
            /\ engine_power_array' = [engine_power_array EXCEPT ![i + 1] = engine_power]
            /\ motor_power_array' = [motor_power_array EXCEPT ![i + 1] = motor_power]
            /\ battery_power_array' = [battery_power_array EXCEPT ![i + 1] = battery_power]
    /\ i' = i + 1
    /\ UNCHANGED << pc, SoC_init, SoC_High, SoC_Low, len_power_demand, len_speed >>

\* the loop left before the samples are exhausted
FinishEarly ==
    /\ pc = "loop"
    /\ i >= NumSteps - 1
    /\ pc' = "plot"
    /\ UNCHANGED << i, SoC_init, SoC_High, SoC_Low, len_power_demand, len_speed,
                    power_demand_profile, speed, SoC, current_mode, SoC_array,
                    mode_array, engine_power_array, motor_power_array,
                    battery_power_array >>

\* The loop is exhausted: control passes to the visualization.
Finish ==
    /\ pc = "loop"
    /\ i = NumSteps
    /\ pc' = "plot"
    /\ UNCHANGED << i, SoC_init, SoC_High, SoC_Low, len_power_demand, len_speed,
                    power_demand_profile, speed, SoC, current_mode, SoC_array,
                    mode_array, engine_power_array, motor_power_array,
                    battery_power_array >>

Next == Step \/ Finish

Spec == Init /\ [][Next]_vars

\* The same run under the scheduling of a sequential program: it keeps
\* executing while a statement remains.
FairSpec == Spec /\ WF_vars(Next)

----------------------------------------------------------------------------
\* The configuration as an input: thresholds and sequence lengths other than
\* the ones the program sets, valid and invalid ones.  The program validates
\* nothing; a sequence shorter than the step count makes the subscript at
\* the head of the loop body raise IndexError.

Configs ==
    { [high |-> SoC_High_configured, low |-> SoC_Low_configured,
       dlen |-> NumSteps, slen |-> NumSteps],
      [high |-> SoC_High_configured, low |-> Frac(1, 2400),
       dlen |-> NumSteps, slen |-> NumSteps],
      [high |-> SoC_Low_configured, low |-> SoC_High_configured,
       dlen |-> NumSteps, slen |-> NumSteps],
      [high |-> SoC_High_configured, low |-> SoC_Low_configured,
       dlen |-> NumSteps - 1, slen |-> NumSteps],
      [high |-> SoC_High_configured, low |-> SoC_Low_configured,
       dlen |-> NumSteps, slen |-> NumSteps - 1],
      [high |-> SoC_High_configured, low |-> SoC_Low_configured,
       dlen |-> NumSteps + 1, slen |-> NumSteps + 1] }

ConfigInit ==
    \E c \in Configs :
        InitWith(InitialSoCs, {c.high}, {c.low}, {c.dlen}, {c.slen})

\* power_demand_profile[i] or speed_profile[i] with i past the end
RaiseIndexError ==
    /\ pc = "loop"
    /\ i < NumSteps
    /\ ~(i < len_power_demand /\ i < len_speed)
    /\ pc' = "IndexError"
    /\ UNCHANGED << i, SoC_init, SoC_High, SoC_Low, len_power_demand, len_speed,
                    power_demand_profile, speed, SoC, current_mode, SoC_array,
                    mode_array, engine_power_array, motor_power_array,
                    battery_power_array >>

ConfigNext == Step \/ Finish \/ RaiseIndexError

ConfigSpec == ConfigInit /\ [][ConfigNext]_vars

----------------------------------------------------------------------------
\* Reading the output trace: step k (1-based) has run when k <= i.

StepsDone == 1..i
\* the SoC held before step k
PrevSoC(k) == IF k = 1 THEN SoC_init ELSE SoC_array[k - 1]
\* the SoC step k computed, before the clamp
Unclamped(k) == Discharge(PrevSoC(k), battery_power_array[k])

----------------------------------------------------------------------------
\* C1: every SoC recorded in the output trace lies in [0, 1], whatever the
\* demand samples are (ten times the motor ceiling, negative ones) and
\* whatever the thresholds are.
SoCBounds ==
    \A k \in StepsDone : 0 <= SoC_array[k] /\ SoC_array[k] <= SoCScale

\* a step with demand 10 * Max_Electric_Power whose computed SoC was negative
\* and was recorded as 0
SoCBoundsWitness ==
    \E k \in StepsDone :
        /\ power_demand_profile[k] = 10 * Max_Electric_Power
        /\ Unclamped(k) < 0
        /\ SoC_array[k] = 0

\* C2: the recorded mode of every step is the first match of the priority
\* rules applied to the SoC held before the step and the step's demand; in
\* particular SoC = 0.9 with demand = 10 gives EV.
ModePriority ==
    \A k \in StepsDone :
        LET s == PrevSoC(k)
            d == power_demand_profile[k]
            m == mode_array[k]
            rule1 == s > SoC_High /\ d < Max_Electric_Power
            rule2 == s < SoC_Low
        IN  /\ rule1 => m = EV
            /\ (~rule1 /\ rule2) => m = ENGINE_ONLY
            /\ (~rule1 /\ ~rule2 /\ d > Power_Demand_Threshold) => m = HYBRID
            /\ (~rule1 /\ ~rule2 /\ d <= Power_Demand_Threshold) => m = EV
            /\ (s = Frac(9, 10) /\ d = kW(10)) => m = EV

\* a run that recorded EV by rule 1 at SoC 0.9 and demand 10, and HYBRID at
\* a later step
ModePriorityWitness ==
    /\ \E k \in StepsDone :
        PrevSoC(k) = Frac(9, 10) /\ power_demand_profile[k] = kW(10) /\ mode_array[k] = EV
    /\ \E k \in StepsDone : mode_array[k] = HYBRID

\* C3 as stated: a step with SoC above SoC_High and demand above
\* Max_Electric_Power records mode EV with motor_power = Max_Electric_Power
\* and engine_power = demand - Max_Electric_Power.
EVSaturationAsStated ==
    \A k \in StepsDone :
        (PrevSoC(k) > SoC_High /\ power_demand_profile[k] > Max_Electric_Power)
            => /\ mode_array[k] = EV
               /\ motor_power_array[k] = Max_Electric_Power
               /\ engine_power_array[k] = power_demand_profile[k] - Max_Electric_Power

\* C3 amended: a step with SoC above SoC_High and demand above
\* Max_Electric_Power fails rule 1 and, the demand exceeding
\* Power_Demand_Threshold, records mode HYBRID with engine_power = demand / 2
\* and motor_power = min(demand / 2, Max_Electric_Power); SoC = 0.9 with
\* demand = 35 gives engine_power = motor_power = 17.5.
HighSoCOverCeilingIsHybrid ==
    \A k \in StepsDone :
        LET d == power_demand_profile[k]
        IN  /\ (PrevSoC(k) > SoC_High /\ d > Max_Electric_Power)
                => /\ mode_array[k] = HYBRID
                   /\ engine_power_array[k] = d \div 2
                   /\ 2 * engine_power_array[k] = d
                   /\ motor_power_array[k] = Min(d \div 2, Max_Electric_Power)
            /\ (PrevSoC(k) = Frac(9, 10) /\ d = kW(35))
                => /\ 2 * engine_power_array[k] = kW(35)
                   /\ 2 * motor_power_array[k] = kW(35)

\* the stated case has run, and so has one whose motor share hits the ceiling
HighSoCOverCeilingWitness ==
    /\ \E k \in StepsDone :
        /\ PrevSoC(k) = Frac(9, 10)
        /\ power_demand_profile[k] = kW(35)
        /\ mode_array[k] = HYBRID
    /\ \E k \in StepsDone :
        /\ PrevSoC(k) > SoC_High
        /\ power_demand_profile[k] = 10 * Max_Electric_Power
        /\ motor_power_array[k] = Max_Electric_Power

\* C4: a step whose incoming SoC is below SoC_Low records ENGINE_ONLY,
\* motor_power = 0 and engine_power = demand, for any demand.
LowSoCOverride ==
    \A k \in StepsDone :
        PrevSoC(k) < SoC_Low
            => /\ mode_array[k] = ENGINE_ONLY
               /\ motor_power_array[k] = 0
               /\ engine_power_array[k] = power_demand_profile[k]

\* a run that began at or above SoC_Low discharged below it and then
\* served a demand of 10 * Max_Electric_Power from the engine alone
LowSoCOverrideWitness ==
    \E k \in StepsDone :
        /\ SoC_init >= SoC_Low
        /\ PrevSoC(k) < SoC_Low
        /\ power_demand_profile[k] = 10 * Max_Electric_Power
        /\ mode_array[k] = ENGINE_ONLY
        /\ engine_power_array[k] = 10 * Max_Electric_Power

\* C5: a step whose incoming SoC lies in [SoC_Low, SoC_High] and whose demand
\* exceeds Power_Demand_Threshold records HYBRID, engine_power = demand / 2
\* and motor_power = min(demand / 2, Max_Electric_Power); SoC = 0.5 with
\* demand = 25 gives 12.5 and 12.5.
HybridSplit ==
    \A k \in StepsDone :
        LET s == PrevSoC(k)
            d == power_demand_profile[k]
        IN  /\ (SoC_Low <= s /\ s <= SoC_High /\ d > Power_Demand_Threshold)
                => /\ mode_array[k] = HYBRID
                   /\ 2 * engine_power_array[k] = d
                   /\ motor_power_array[k] = Min(engine_power_array[k], Max_Electric_Power)
            /\ (s = Frac(5, 10) /\ d = kW(25))
                => /\ 2 * engine_power_array[k] = kW(25)
                   /\ 2 * motor_power_array[k] = kW(25)

\* the stated case has run, and so has a hybrid step with demand / 2 above
\* the ceiling
HybridSplitWitness ==
    /\ \E k \in StepsDone :
        /\ PrevSoC(k) = Frac(5, 10)
        /\ power_demand_profile[k] = kW(25)
        /\ mode_array[k] = HYBRID
    /\ \E k \in StepsDone :
        /\ SoC_Low <= PrevSoC(k)
        /\ PrevSoC(k) <= SoC_High
        /\ 2 * Max_Electric_Power < power_demand_profile[k]
        /\ motor_power_array[k] = Max_Electric_Power

\* C6: if the demand is 0 at every step, motor_power is 0 at every step and
\* every recorded SoC equals SoC_init.
ZeroDemandIdempotence ==
    (\A k \in StepsDone : power_demand_profile[k] = 0)
        => \A k \in StepsDone : motor_power_array[k] = 0 /\ SoC_array[k] = SoC_init

\* a complete run of zero demand from the configured initial SoC
ZeroDemandWitness ==
    /\ pc = "plot"
    /\ i = NumSteps
    /\ SoC_init = SoC_init_configured
    /\ \A k \in StepsDone : power_demand_profile[k] = 0 /\ SoC_array[k] = SoC_init

\* Steps k - 1 and k belong to a stretch of the same positive motor_power in
\* which the clamp leaves the computed SoC as it is.
SameDischarge(k) ==
    /\ motor_power_array[k] > 0
    /\ motor_power_array[k] = motor_power_array[k - 1]
    /\ Unclamped(k) = SoC_array[k]
    /\ Unclamped(k - 1) = SoC_array[k - 1]

\* C7 as stated: within such a stretch the recorded SoC is strictly smaller
\* at each step than at the step before.
DischargeStrictlyDecreasing ==
    \A k \in StepsDone \ {1} : SameDischarge(k) => SoC_array[k] < SoC_array[k - 1]

\* C7 amended: within such a stretch the recorded SoC is never larger than at
\* the step before, and it is strictly smaller whenever the step's charge
\* delta, motor_power * dt as a fraction of the capacity, is at least one
\* spacing of the representable SoC values; a smaller positive delta may be
\* rounded away by the subtraction and leave SoC unchanged.
DischargeMonotone ==
    \A k \in StepsDone \ {1} :
        SameDischarge(k)
            => /\ SoC_array[k] <= SoC_array[k - 1]
               /\ motor_power_array[k] * dt >= GridRatio
                    => SoC_array[k] < SoC_array[k - 1]

\* a stretch of two steps of equal motor power that lowered SoC twice, in a
\* run that is not clamped
DischargeMonotoneWitness ==
    \E k \in StepsDone \ {1} :
        /\ SameDischarge(k)
        /\ motor_power_array[k] * dt >= GridRatio
        /\ SoC_array[k] < SoC_array[k - 1]
        /\ SoC_array[k - 1] < PrevSoC(k - 1)

\* The configuration breaks one of the stated validity conditions.
ConfigInvalid ==
    \/ SoC_Low >= SoC_High
    \/ battery_capacity_kWh <= 0
    \/ battery_voltage <= 0
    \/ len_power_demand # len_speed
    \/ len_power_demand # NumSteps
    \/ len_speed # NumSteps

\* C8 as stated: under an invalid configuration (SoC_Low >= SoC_High, a
\* non-positive capacity or voltage, demand and speed sequences of different
\* lengths or of a length other than the step count) no simulation step ever
\* executes: the run is stopped by a configuration error before the first one.
ConfigErrorsFailFast ==
    ConfigInvalid => (i = 0 /\ pc \in {"loop", "ConfigurationError"})

\* Entry k of the five output arrays is what step k produced from the SoC held
\* before it and the k-th demand sample.
EntryOfStep(k) ==
    LET d == power_demand_profile[k]
    IN  /\ mode_array[k] = DetermineMode(PrevSoC(k), d, SoC_High, SoC_Low)
        /\ motor_power_array[k] = MotorPower(mode_array[k], d)
        /\ engine_power_array[k] = EnginePower(mode_array[k], d)
        /\ battery_power_array[k] = motor_power_array[k]
        /\ SoC_array[k] = Clamp(Unclamped(k))

\* C9: the loop terminates, and when it has, exactly total_time / dt steps
\* have run, whatever the demand values were, and each of the five output
\* arrays holds at every index the entry of that step.
LoopTerminates ==
    /\ <>(pc = "plot")
    /\ [](pc = "plot" =>
            /\ i = total_time \div dt
            /\ Len(power_demand_profile) = total_time \div dt
            /\ \A k \in 1..(total_time \div dt) : EntryOfStep(k)
            /\ SoC = SoC_array[total_time \div dt]
            /\ current_mode = mode_array[total_time \div dt])

\* a finished run whose last step, at the last index, served a demand of
\* 10 * Max_Electric_Power in HYBRID after a first step in EV
LoopTerminatesWitness ==
    /\ pc = "plot"
    /\ i = total_time \div dt
    /\ mode_array[1] = EV
    /\ motor_power_array[1] > 0
    /\ power_demand_profile[i] = 10 * Max_Electric_Power
    /\ mode_array[i] = HYBRID
    /\ motor_power_array[i] = Max_Electric_Power

\* C11: a step with motor_power <= 0 (ENGINE_ONLY, zero demand, negative
\* demand served in EV mode) leaves SoC as it was, the incoming SoC being in
\* [0, 1].
NoChargePath ==
    \A k \in StepsDone :
        (motor_power_array[k] <= 0 /\ 0 <= PrevSoC(k) /\ PrevSoC(k) <= SoCScale)
            => SoC_array[k] = PrevSoC(k)

\* a negative demand served in EV mode below full charge, and an ENGINE_ONLY
\* step, each leaving SoC where it was
NoChargePathWitness ==
    /\ \E k \in StepsDone :
        /\ mode_array[k] = EV
        /\ motor_power_array[k] < 0
        /\ PrevSoC(k) < SoCScale
        /\ SoC_array[k] = PrevSoC(k)
    /\ \E k \in StepsDone :
        /\ mode_array[k] = ENGINE_ONLY
        /\ power_demand_profile[k] > 0
        /\ SoC_array[k] = PrevSoC(k)

\* C12: the carried SoC is the only coupling between steps: the SoC a step
\* starts from is the one recorded by the step before, and any two steps that
\* start from the same SoC with the same demand record the same mode,
\* engine_power, motor_power, battery_power and SoC, whatever the mode of the
\* step before each (the initial EV included) and whatever the speed samples.
SoCOnlyCoupling ==
    /\ SoC = (IF i = 0 THEN SoC_init ELSE SoC_array[i])
    /\ \A j \in StepsDone : \A k \in StepsDone :
        (PrevSoC(j) = PrevSoC(k) /\ power_demand_profile[j] = power_demand_profile[k])
            => /\ mode_array[j] = mode_array[k]
               /\ engine_power_array[j] = engine_power_array[k]
               /\ motor_power_array[j] = motor_power_array[k]
               /\ battery_power_array[j] = battery_power_array[k]
               /\ SoC_array[j] = SoC_array[k]

\* the mode that was current when step k began
ModeBefore(k) == IF k = 1 THEN EV ELSE mode_array[k - 1]

\* two steps with the same incoming SoC and demand, begun in different modes,
\* with the same outputs
SoCOnlyCouplingWitness ==
    \E j \in StepsDone : \E k \in StepsDone :
        /\ j < k
        /\ PrevSoC(j) = PrevSoC(k)
        /\ power_demand_profile[j] = power_demand_profile[k]
        /\ ModeBefore(j) # ModeBefore(k)
        /\ mode_array[j] = mode_array[k]
        /\ motor_power_array[j] = motor_power_array[k]

\* C13: once a step records ENGINE_ONLY, every later step records ENGINE_ONLY
\* with motor_power = 0 and the same SoC, whatever its demand.
EngineOnlyAbsorbing ==
    \A j \in StepsDone : \A k \in StepsDone :
        (j < k /\ mode_array[j] = ENGINE_ONLY)
            => /\ mode_array[k] = ENGINE_ONLY
               /\ motor_power_array[k] = 0
               /\ SoC_array[k] = SoC_array[j]

\* a run that discharged below SoC_Low, recorded ENGINE_ONLY and then met a
\* demand of 10 * Max_Electric_Power
EngineOnlyAbsorbingWitness ==
    \E j \in StepsDone : \E k \in StepsDone :
        /\ j < k
        /\ SoC_init >= SoC_Low
        /\ mode_array[j] = ENGINE_ONLY
        /\ power_demand_profile[k] = 10 * Max_Electric_Power
        /\ mode_array[k] = ENGINE_ONLY

\* C14: SoC never increases: every recorded SoC is at most the SoC held
\* before the step (SoC_init for the first step), negative demand included.
SoCNeverIncreases ==
    (0 <= SoC_init /\ SoC_init <= SoCScale)
        => \A k \in StepsDone : SoC_array[k] <= PrevSoC(k)

\* a step of negative demand that left SoC unchanged, followed by a step that
\* lowered it
SoCNeverIncreasesWitness ==
    \E k \in StepsDone \ {1} :
        /\ power_demand_profile[k - 1] < 0
        /\ motor_power_array[k - 1] < 0
        /\ SoC_array[k - 1] = PrevSoC(k - 1)
        /\ SoC_array[k] < PrevSoC(k)

\* C15: with Power_Demand_Threshold below Max_Electric_Power the overflow arm
\* of the EV split is never taken: every step that records EV has
\* motor_power = demand and engine_power = 0, whatever SoC and demand are.
EVNeverOverflows ==
    /\ Power_Demand_Threshold < Max_Electric_Power
    /\ \A k \in StepsDone :
        mode_array[k] = EV
            => /\ power_demand_profile[k] <= Max_Electric_Power
               /\ motor_power_array[k] = power_demand_profile[k]
               /\ engine_power_array[k] = 0

\* EV recorded by rule 1 above SoC_High, and EV recorded by the last rule in a
\* run that also met a demand above the motor ceiling at high SoC
EVNeverOverflowsWitness ==
    /\ \E k \in StepsDone :
        /\ PrevSoC(k) > SoC_High
        /\ mode_array[k] = EV
        /\ motor_power_array[k] = kW(10)
    /\ \E k \in StepsDone :
        /\ PrevSoC(k) > SoC_High
        /\ power_demand_profile[k] > Max_Electric_Power
        /\ mode_array[k] # EV

\* A run of the configured program, or the rest of one: it starts from the
\* configured SoC_init or from a lower SoC such a run passes through, down to
\* one maximal discharge step below SoC_Low.
MaxStepDischarge == (Max_Electric_Power * dt) \div GridRatio
ConfiguredRun ==
    /\ SoC_Low = SoC_Low_configured
    /\ SoC_init <= SoC_init_configured
    /\ SoC_init >= SoC_Low - MaxStepDischarge

\* C16: with the configured parameters the clamp never changes the computed
\* SoC: at every step the SoC computed before the clamp is at least SoC_Low
\* minus one maximal step's discharge (1/1200) and at most SoC_init, so that
\* SoC never reaches 0.
ClampNeverActs ==
    /\ MaxStepDischarge = Frac(1, 1200)
    /\ ConfiguredRun
        => \A k \in StepsDone :
            /\ Unclamped(k) = SoC_array[k]
            /\ Unclamped(k) >= SoC_Low - MaxStepDischarge
            /\ Unclamped(k) <= SoC_init_configured
            /\ SoC_array[k] > 0

\* a run that came to SoC_Low exactly, discharged at the motor ceiling to
\* SoC_Low - 1/1200 and stayed there
ClampNeverActsWitness ==
    /\ ConfiguredRun
    /\ \E k \in StepsDone \ {1} :
        /\ PrevSoC(k - 1) = SoC_Low
        /\ motor_power_array[k - 1] = Max_Electric_Power
        /\ Unclamped(k - 1) = SoC_Low - MaxStepDischarge
        /\ mode_array[k] = ENGINE_ONLY
        /\ SoC_array[k] = SoC_Low - MaxStepDischarge

\* C17: every step whose demand lies in [0, 2 * Max_Electric_Power] has
\* engine_power + motor_power = demand, whatever SoC and mode are; demand is
\* left unserved only in HYBRID steps with demand / 2 > Max_Electric_Power.
PowerBalance ==
    \A k \in StepsDone :
        LET d == power_demand_profile[k]
            served == engine_power_array[k] + motor_power_array[k]
        IN  /\ (0 <= d /\ d <= 2 * Max_Electric_Power) => served = d
            /\ served # d => (mode_array[k] = HYBRID /\ d > 2 * Max_Electric_Power)

\* a balanced HYBRID step with demand above the motor ceiling, and a HYBRID
\* step that leaves part of the demand unserved
PowerBalanceWitness ==
    /\ \E k \in StepsDone :
        /\ mode_array[k] = HYBRID
        /\ power_demand_profile[k] = kW(35)
        /\ engine_power_array[k] + motor_power_array[k] = kW(35)
    /\ \E k \in StepsDone :
        /\ mode_array[k] = HYBRID
        /\ engine_power_array[k] + motor_power_array[k] < power_demand_profile[k]

\* C18: every step with non-negative demand has
\* 0 <= motor_power <= Max_Electric_Power and engine_power >= 0, whatever SoC
\* is, and every step records battery_power equal to motor_power.
MotorCeiling ==
    \A k \in StepsDone :
        /\ battery_power_array[k] = motor_power_array[k]
        /\ power_demand_profile[k] >= 0
            => /\ 0 <= motor_power_array[k]
               /\ motor_power_array[k] <= Max_Electric_Power
               /\ engine_power_array[k] >= 0

\* a demand of 10 * Max_Electric_Power served with the motor at its ceiling,
\* after a step of positive battery power
MotorCeilingWitness ==
    \E k \in StepsDone \ {1} :
        /\ battery_power_array[k - 1] > 0
        /\ power_demand_profile[k] = 10 * Max_Electric_Power
        /\ motor_power_array[k] = Max_Electric_Power
        /\ battery_power_array[k] = Max_Electric_Power

====
